---- MODULE Spec2Model ----
(***************************************************************************)
(* Model of the metric-calculation engine of the einsum tree visualiser    *)
(* (einsum_webapp/src/components/utils/metricCalculation.jsx).             *)
(*                                                                         *)
(* A contraction tree is a function from heap positions (1 is the root,    *)
(* 2p the left child of p, 2p+1 its right child) to node records; an       *)
(* absent node is NoNode.  A field that was never written holds Undefined, *)
(* a field cleared by resetTreeOperations holds Null.  Numbers produced by *)
(* a division are kept as exact fractions n/d in lowest terms; the IEEE   *)
(* results NaN, Infinity and -Infinity are separate tagged values.         *)
(***************************************************************************)
EXTENDS Integers, Sequences, FiniteSets, TLC

VARIABLES tree, indexSizes, dataTypeSize, summary, stats, pc, dimTypes, pureOut

\* what the last operations pass did, kept for the properties: the object
\* returned by each call of calculateNodeOperations and the binaryNodes list
VARIABLE calls

\* arguments and result of a direct call of one of the two helper functions
VARIABLES args, ret

\* the module-level activeNodeIndicesPanel, the CustomNode instances of the
\* flow diagram and the isDragging prop that reaches every instance as
\* data.forceCloseTooltip; event is the DOM or React event handled last and
\* touchOnly records that every event so far was a touch-start
VARIABLES activeNodeIndicesPanel, nodes, isDragging, event, touchOnly

\* a session in which the UI layer edits the tree between passes: the number
\* of calculateNodeMetrics calls since the last edit and the number of edits
VARIABLES passes, edits

metricVars == <<tree, indexSizes, dataTypeSize, summary, stats, pc, dimTypes,
                pureOut, calls>>

callVars == <<args, ret>>

panelVars == <<activeNodeIndicesPanel, nodes, isDragging, event, touchOnly>>

editVars == <<passes, edits>>

vars == <<tree, indexSizes, dataTypeSize, summary, stats, pc, dimTypes, pureOut,
          calls, args, ret, activeNodeIndicesPanel, nodes, isDragging, event,
          touchOnly, passes, edits>>

(***************************************************************************)
(* Bounds and input menus                                                  *)
(***************************************************************************)
MaxDepth == 3

MaxNodes == 5

\* longest index list handed to calculateDimensionProduct directly
MaxLen == 3

\* number of CustomNode instances
MaxPanelNodes == 2

\* calls of calculateNodeMetrics in a row on an unmodified tree
MaxPasses == 2

\* edits of the tree in one session
MaxEdits == 2

Letters == {"b", "i", "j", "k"}

LetterOrder == <<"b", "i", "j", "k">>

\* index-size mappings offered to the engine; a letter outside the domain
\* has no entry in the mapping
SizeMenu ==
    { [b |-> 2, i |-> 2, j |-> 3, k |-> 4],
      [b |-> 3, i |-> 3, j |-> 2, k |-> 2],
      [i |-> 2, k |-> 3] }

FixtureSizes == [b |-> 2, i |-> 2, j |-> 3, k |-> 4]

\* the mappings handed over together with a tree
TreeSizeMenu == { [b |-> 2, i |-> 2, j |-> 3, k |-> 4], [i |-> 2, k |-> 3] }

DataTypeSizes == {0, 4}

\* index lists a node may carry
ValueMenu == { <<"i", "j">>, <<"i", "k">>, <<"k", "j">> }

\* JavaScript values held by annotation fields: a number is kept as the
\* exact fraction n/d in lowest terms (d > 0), the others are tagged
JsVal(kind) == [k |-> kind, n |-> 0, d |-> 1]

Undefined == JsVal("undefined")

Null == JsVal("null")

NaN == JsVal("NaN")

PosInfinity == JsVal("Infinity")

NegInfinity == JsVal("-Infinity")

(***************************************************************************)
(* Arithmetic on JavaScript numbers                                        *)
(***************************************************************************)
Abs(x) == IF x < 0 THEN -x ELSE x

RECURSIVE Gcd(_, _)
Gcd(a, b) == IF b = 0 THEN a ELSE Gcd(b, a % b)

IsNum(x) == x.k = "num"

\* the fraction n/d, d # 0, in lowest terms with a positive denominator
Frac(n, d) ==
    LET g == Gcd(Abs(n), Abs(d))
        s == IF d < 0 THEN -1 ELSE 1
    IN  [k |-> "num", n |-> (s * n) \div g, d |-> (s * d) \div g]

Num(n) == [k |-> "num", n |-> n, d |-> 1]

\* JavaScript  x / y  on two finite numbers
JsDiv(x, y) ==
    IF y.n # 0 THEN Frac(x.n * y.d, x.d * y.n)
    ELSE IF x.n = 0 THEN NaN
    ELSE IF x.n > 0 THEN PosInfinity
    ELSE NegInfinity

\* JavaScript  x * 100
JsTimes100(x) == IF IsNum(x) THEN Frac(x.n * 100, x.d) ELSE x

JsLess(x, y) == x.n * y.d < y.n * x.d

JsSub(x, y) == Frac(x.n * y.d - y.n * x.d, x.d * y.d)

(***************************************************************************)
(* calculateDimensionProduct: left fold of the sizes of the letters,       *)
(* a letter without an entry (or with a falsy one) counts as 1             *)
(***************************************************************************)
SizeOfMissingZero(sizes, index) ==
    IF index \in DOMAIN sizes THEN sizes[index] ELSE 0

SizeOf(sizes, index) ==
    IF index \in DOMAIN sizes /\ sizes[index] # 0 THEN sizes[index] ELSE 1

RECURSIVE calculateDimensionProduct(_, _, _)
calculateDimensionProduct(dimensions, sizes, initialValue) ==
    IF dimensions = <<>> THEN initialValue
    ELSE calculateDimensionProduct(Tail(dimensions), sizes,
                                   initialValue * SizeOf(sizes, Head(dimensions)))

(***************************************************************************)
(* normalizeToPercentage on fractions and the special values               *)
(***************************************************************************)
\* x - y and x / y on numbers, NaN, undefined (NaN in arithmetic) and the
\* two infinities; the divisor is never zero where JsDivExt is used
IsInf(x) == x = PosInfinity \/ x = NegInfinity

Negate(x) == IF x = PosInfinity THEN NegInfinity
             ELSE IF x = NegInfinity THEN PosInfinity
             ELSE x

JsSubExt(x, y) ==
    IF IsNum(x) /\ IsNum(y) THEN JsSub(x, y)
    ELSE IF IsInf(x) /\ IsNum(y) THEN x
    ELSE IF IsNum(x) /\ IsInf(y) THEN Negate(y)
    ELSE IF IsInf(x) /\ IsInf(y) /\ x # y THEN x
    ELSE NaN

JsDivExt(x, y) ==
    IF IsNum(x) /\ IsNum(y) THEN JsDiv(x, y)
    ELSE IF IsNum(x) /\ IsInf(y) THEN Num(0)
    ELSE IF IsInf(x) /\ IsNum(y) THEN (IF y.n < 0 THEN Negate(x) ELSE x)
    ELSE NaN

\* the guard min === max is false when either is NaN
normalizeToPercentageNoGuard(value, min, max) ==
    JsTimes100(JsDivExt(JsSubExt(value, min), JsSubExt(max, min)))

normalizeToPercentage(value, min, max) ==
    IF min = max /\ min # NaN THEN Num(0)
    ELSE JsTimes100(JsDivExt(JsSubExt(value, min), JsSubExt(max, min)))

(***************************************************************************)
(* Dimension classifications and the two cost formulas                     *)
(***************************************************************************)
PrimitiveKeys == <<"cb", "mb", "nb", "kb">>

LoopKeys == <<"bc", "bm", "bn", "bk">>

\* enumeration order of  for (key in dimTypes) for (dim in dimTypes[key])
KeyOrder ==
    << <<"primitive", "cb">>, <<"primitive", "mb">>, <<"primitive", "nb">>,
       <<"primitive", "kb">>, <<"loop", "bc">>, <<"loop", "bm">>,
       <<"loop", "bn">>, <<"loop", "bk">> >>

EmptyDimTypes ==
    [primitive |-> [cb |-> <<>>, mb |-> <<>>, nb |-> <<>>, kb |-> <<>>],
     loop      |-> [bc |-> <<>>, bm |-> <<>>, bn |-> <<>>, bk |-> <<>>]]

calculateDimProducts(dt, sizes) ==
    LET calc(type, dim) == calculateDimensionProduct(dt[type][dim], sizes, 1)
    IN  [cDim |-> calc("primitive", "cb") * calc("loop", "bc"),
         mDim |-> calc("primitive", "mb") * calc("loop", "bm"),
         nDim |-> calc("primitive", "nb") * calc("loop", "bn"),
         kDim |-> calc("primitive", "kb") * calc("loop", "bk")]

\* the loop body of calculateOperations for the keys KeyOrder[n..8]
RECURSIVE OperationsLoop(_, _, _, _, _)
OperationsLoop(dt, sizes, n, cmn, k) ==
    IF n > Len(KeyOrder) THEN [cmn |-> cmn, k |-> k]
    ELSE LET key == KeyOrder[n][1]
             dim == KeyOrder[n][2]
         IN  IF dim = "kb" \/ dim = "bk"
             THEN OperationsLoop(dt, sizes, n + 1, cmn,
                                 calculateDimensionProduct(dt[key][dim], sizes, k))
             ELSE OperationsLoop(dt, sizes, n + 1,
                                 calculateDimensionProduct(dt[key][dim], sizes, cmn), k)

calculateOperationsNoDoubling(dt, sizes) ==
    LET r == OperationsLoop(dt, sizes, 1, 1, 1)
    IN  r.cmn * r.k - r.cmn

calculateOperationsNoSubtract(dt, sizes) ==
    LET r == OperationsLoop(dt, sizes, 1, 1, 1)
    IN  2 * r.cmn * r.k

calculateOperations(dt, sizes) ==
    LET r == OperationsLoop(dt, sizes, 1, 1, 1)
    IN  2 * r.cmn * r.k - r.cmn

calculateByteAccessesTwoTensors(dt, sizes) ==
    LET d   == calculateDimProducts(dt, sizes)
        cmn == d.cDim * d.mDim * d.nDim
        cnk == d.nDim * d.kDim
    IN  cmn + cnk

calculateByteAccesses(dt, sizes) ==
    LET d   == calculateDimProducts(dt, sizes)
        cmn == d.cDim * d.mDim * d.nDim
        cnk == d.nDim * d.kDim
        cmk == d.mDim * d.kDim
    IN  cmn + cnk + cmk

(***************************************************************************)
(* Trees                                                                   *)
(***************************************************************************)
RECURSIVE Pow2(_)
Pow2(n) == IF n = 0 THEN 1 ELSE 2 * Pow2(n - 1)

Positions == 1 .. (Pow2(MaxDepth) - 1)

\* a node as the UI layer hands it over: value set, no annotation written
FreshNode(v) ==
    [exists |-> TRUE, value |-> v,
     tensorSize |-> Undefined, sizePercentage |-> Undefined,
     normalizedSizePercentage |-> Undefined,
     operations |-> Undefined, operationsPercentage |-> Undefined,
     normalizedPercentage |-> Undefined,
     byteAccesses |-> Undefined, totalOperations |-> Undefined]

NoNode == [FreshNode(<<>>) EXCEPT !.exists = FALSE]

Exists(t, p) == p \in Positions /\ t[p].exists

Left(p) == 2 * p

Right(p) == 2 * p + 1

\* the nodes reachable from the root through left and right links
PrefixClosed(S) == \A p \in S : p = 1 \/ (p \div 2) \in S

Shapes == { S \in SUBSET Positions : PrefixClosed(S) /\ Cardinality(S) <= MaxNodes }

MakeTree(S, v) == [p \in Positions |-> IF p \in S THEN FreshNode(v[p]) ELSE NoNode]

(***************************************************************************)
(* Dimension classifier (dimensionClassifier.jsx): roles by membership of  *)
(* a letter in the node's, the left child's and the right child's index    *)
(* lists.  C: all three, M: node and left, N: node and right, K: both      *)
(* children but not the node; any other pattern is no contraction and the  *)
(* classifier returns a falsy value.  The letters of loopSet take the loop *)
(* sub-role of their role, the others the primitive one.                   *)
(***************************************************************************)
Elems(seq) == { seq[n] : n \in DOMAIN seq }

Keep(seq, S) == SelectSeq(seq, LAMBDA x : x \in S)

ClassifierFails(node, left, right) ==
    \/ \E x \in Elems(node) : x \notin Elems(left) \cup Elems(right)
    \/ \E x \in Elems(left) : x \notin Elems(node) \cup Elems(right)
    \/ \E x \in Elems(right) : x \notin Elems(node) \cup Elems(left)

dimensionTypes(node, left, right, loopSet) ==
    LET N  == Elems(node)
        L  == Elems(left)
        R  == Elems(right)
        c  == Keep(node, L \cap R)
        m  == Keep(node, L \ R)
        n  == Keep(node, R \ L)
        kk == Keep(left, R \ N)
        prim(seq) == Keep(seq, Letters \ loopSet)
        loop(seq) == Keep(seq, loopSet)
    IN  IF ClassifierFails(node, left, right)
        THEN [ok |-> FALSE, dt |-> EmptyDimTypes]
        ELSE [ok |-> TRUE,
              dt |-> [primitive |-> [cb |-> prim(c), mb |-> prim(m),
                                     nb |-> prim(n), kb |-> prim(kk)],
                      loop      |-> [bc |-> loop(c), bm |-> loop(m),
                                     bn |-> loop(n), bk |-> loop(kk)]]]

\* the sub-role splits exercised by a pass
LoopChoices == { {}, {"i", "k"}, Letters }

(***************************************************************************)
(* Size annotation                                                         *)
(***************************************************************************)
NoStats == [totalTensorSize |-> Undefined, maxTensorSize |-> Undefined,
            minTensorSize |-> Undefined]

InitialStats == [totalTensorSize |-> Num(0), maxTensorSize |-> Num(0),
                 minTensorSize |-> PosInfinity]

\* Math.max / Math.min on a finite or infinite first operand and a number
JsMax(x, y) == IF x = NegInfinity THEN y
               ELSE IF x = PosInfinity THEN x
               ELSE IF JsLess(x, y) THEN y ELSE x

JsMin(x, y) == IF x = PosInfinity THEN y
               ELSE IF x = NegInfinity THEN x
               ELSE IF JsLess(y, x) THEN y ELSE x

\* node.tensorSize = calculateDimensionProduct(node.value, indexSizes) * dataTypeSize
NodeTensorSizeUnscaled(value, sizes, dts) ==
    Num(calculateDimensionProduct(value, sizes, 1))

NodeTensorSize(value, sizes, dts) ==
    Num(calculateDimensionProduct(value, sizes, 1) * dts)

\* the three updates of the stats object for one node
AccumulateStatsAssign(s, size) ==
    [totalTensorSize |-> size,
     maxTensorSize   |-> JsMax(s.maxTensorSize, size),
     minTensorSize   |-> JsMin(s.minTensorSize, size)]

AccumulateStats(s, size) ==
    [totalTensorSize |-> Num(s.totalTensorSize.n + size.n),
     maxTensorSize   |-> JsMax(s.maxTensorSize, size),
     minTensorSize   |-> JsMin(s.minTensorSize, size)]

\* st = [t |-> tree, stats |-> stats]
RECURSIVE calculateNodeSizes(_, _, _, _)
calculateNodeSizes(st, p, sizes, dts) ==
    IF ~Exists(st.t, p) THEN st
    ELSE LET size == NodeTensorSize(st.t[p].value, sizes, dts)
             t1   == [st.t EXCEPT ![p].tensorSize = size]
             s1   == AccumulateStats(st.stats, size)
             l    == calculateNodeSizes([t |-> t1, stats |-> s1], Left(p), sizes, dts)
         IN  calculateNodeSizes(l, Right(p), sizes, dts)

RECURSIVE addSizePercentages(_, _, _)
addSizePercentages(t, p, st) ==
    IF ~Exists(t, p) THEN t
    ELSE LET t1 == [t EXCEPT
                      ![p].sizePercentage =
                          JsTimes100(JsDiv(t[p].tensorSize, st.totalTensorSize)),
                      ![p].normalizedSizePercentage =
                          normalizeToPercentage(t[p].tensorSize, st.minTensorSize,
                                                st.maxTensorSize)]
         IN  addSizePercentages(addSizePercentages(t1, Left(p), st), Right(p), st)

(***************************************************************************)
(* Operation annotation                                                    *)
(***************************************************************************)
RECURSIVE resetTreeOperationsLeftOnly(_, _)
resetTreeOperationsLeftOnly(t, p) ==
    IF ~Exists(t, p) THEN t
    ELSE LET t1 == [t EXCEPT ![p].operations = Null,
                             ![p].operationsPercentage = Null,
                             ![p].normalizedPercentage = Null]
         IN  resetTreeOperationsLeftOnly(t1, Left(p))

RECURSIVE resetTreeOperations(_, _)
resetTreeOperations(t, p) ==
    IF ~Exists(t, p) THEN t
    ELSE LET t1 == [t EXCEPT ![p].operations = Null,
                             ![p].operationsPercentage = Null,
                             ![p].normalizedPercentage = Null]
         IN  resetTreeOperations(resetTreeOperations(t1, Left(p)), Right(p))

\* acc = [t |-> tree, faultyNodes |-> Seq(position), binaryNodes |-> Seq(position),
\*        returns |-> the object returned by the call on each node so far];
\* a result adds the returned object {hasError, operations}
NoCall == [called |-> FALSE, hasError |-> FALSE, operations |-> 0]

NoCalls == [returns |-> [p \in Positions |-> NoCall], binaryNodes |-> <<>>]

Returned(r, p) ==
    [r EXCEPT !.acc.returns[p] =
        [called |-> TRUE, hasError |-> r.hasError, operations |-> r.operations]]

\* if (!node.left) return { hasError: false, operations: 0 }
LeafResultOne(acc) == [acc |-> acc, hasError |-> FALSE, operations |-> 1]

LeafResultError(acc) == [acc |-> acc, hasError |-> TRUE, operations |-> 0]

LeafResult(acc) == [acc |-> acc, hasError |-> FALSE, operations |-> 0]

\* faultyNodes.push(node); return { hasError: true, operations: 0 }
FaultResultPrepend(a, p) ==
    [acc |-> [a EXCEPT !.faultyNodes = <<p>> \o @],
     hasError |-> TRUE, operations |-> 0]

FaultResultNoFlag(a, p) ==
    [acc |-> [a EXCEPT !.faultyNodes = Append(@, p)],
     hasError |-> FALSE, operations |-> 0]

FaultResult(a, p) ==
    [acc |-> [a EXCEPT !.faultyNodes = Append(@, p)],
     hasError |-> TRUE, operations |-> 0]

\* the node's two cost fields, its share of the total, binaryNodes.push(node)
SuccessResultChildrenOnly(a, p, hasError, subOps, bytes, ops) ==
    [acc |-> [a EXCEPT !.t = [a.t EXCEPT ![p].byteAccesses = Num(bytes),
                                         ![p].operations = Num(ops)],
                       !.binaryNodes = Append(a.binaryNodes, p)],
     hasError |-> hasError,
     operations |-> subOps]

SuccessResult(a, p, hasError, subOps, bytes, ops) ==
    [acc |-> [a EXCEPT !.t = [a.t EXCEPT ![p].byteAccesses = Num(bytes),
                                         ![p].operations = Num(ops)],
                       !.binaryNodes = Append(a.binaryNodes, p)],
     hasError |-> hasError,
     operations |-> subOps + ops]

\* a node with a left child only: hasError and totalOps are those of the child
PermutationResultNoError(leftResult) == [leftResult EXCEPT !.hasError = FALSE]

PermutationResult(leftResult) == leftResult

RECURSIVE calculateNodeOperations(_, _, _, _)
calculateNodeOperations(acc, p, sizes, loopSet) ==
  Returned(
    IF ~Exists(acc.t, Left(p))
    THEN LeafResult(acc)
    ELSE LET leftResult == calculateNodeOperations(acc, Left(p), sizes, loopSet)
         IN  IF ~Exists(acc.t, Right(p))
             THEN PermutationResult(leftResult)
             ELSE LET rightResult == calculateNodeOperations(leftResult.acc, Right(p),
                                                             sizes, loopSet)
                      a        == rightResult.acc
                      hasError == leftResult.hasError \/ rightResult.hasError
                      subOps   == leftResult.operations + rightResult.operations
                      dimtypes == dimensionTypes(a.t[p].value, a.t[Left(p)].value,
                                                 a.t[Right(p)].value, loopSet)
                  IN  IF ~dimtypes.ok
                      THEN FaultResult(a, p)
                      ELSE SuccessResult(a, p, hasError, subOps,
                                         calculateByteAccesses(dimtypes.dt, sizes),
                                         calculateOperations(dimtypes.dt, sizes)),
    p)

\* binaryNodes.forEach(...) for the entries n..Len(binaryNodes)
RECURSIVE SetPercentagesOnce(_, _, _, _)
SetPercentagesOnce(t, binaryNodes, n, totalOperations) ==
    IF n > Len(binaryNodes) THEN t
    ELSE LET p == binaryNodes[n]
         IN  SetPercentagesOnce(
                 [t EXCEPT ![p].operationsPercentage =
                               IF t[p].operationsPercentage = Undefined
                               THEN JsTimes100(JsDiv(t[p].operations,
                                                     Num(totalOperations)))
                               ELSE Null,
                           ![p].totalOperations = Num(totalOperations)],
                 binaryNodes, n + 1, totalOperations)

RECURSIVE SetPercentages(_, _, _, _)
SetPercentages(t, binaryNodes, n, totalOperations) ==
    IF n > Len(binaryNodes) THEN t
    ELSE LET p == binaryNodes[n]
         IN  SetPercentages(
                 [t EXCEPT ![p].operationsPercentage =
                               JsTimes100(JsDiv(t[p].operations, Num(totalOperations))),
                           ![p].totalOperations = Num(totalOperations)],
                 binaryNodes, n + 1, totalOperations)

\* Math.min(...xs) and Math.max(...xs): Infinity and -Infinity on no arguments,
\* NaN as soon as one argument is not a finite number
RECURSIVE MathMin(_, _, _)
MathMin(xs, n, m) ==
    IF n > Len(xs) THEN m
    ELSE IF ~IsNum(xs[n]) THEN NaN
    ELSE MathMin(xs, n + 1, JsMin(m, xs[n]))

RECURSIVE MathMax(_, _, _)
MathMax(xs, n, m) ==
    IF n > Len(xs) THEN m
    ELSE IF ~IsNum(xs[n]) THEN NaN
    ELSE MathMax(xs, n + 1, JsMax(m, xs[n]))

\* x || 0
OrZero(x) == IF x = NaN \/ x = Num(0) THEN Num(0) ELSE x

RECURSIVE addNormalizedPercentagesEveryNode(_, _, _, _)
addNormalizedPercentagesEveryNode(t, p, minPercentage, maxPercentage) ==
    IF ~Exists(t, p) THEN t
    ELSE LET t1 == [t EXCEPT ![p].normalizedPercentage =
                            normalizeToPercentage(t[p].operationsPercentage,
                                                  minPercentage, maxPercentage)]
         IN  addNormalizedPercentagesEveryNode(
                 addNormalizedPercentagesEveryNode(t1, Left(p), minPercentage,
                                                   maxPercentage),
                 Right(p), minPercentage, maxPercentage)

RECURSIVE addNormalizedPercentages(_, _, _, _)
addNormalizedPercentages(t, p, minPercentage, maxPercentage) ==
    IF ~Exists(t, p) THEN t
    ELSE LET t1 == IF Exists(t, Left(p)) /\ Exists(t, Right(p))
                   THEN [t EXCEPT ![p].normalizedPercentage =
                            normalizeToPercentage(t[p].operationsPercentage,
                                                  minPercentage, maxPercentage)]
                   ELSE t
         IN  addNormalizedPercentages(
                 addNormalizedPercentages(t1, Left(p), minPercentage, maxPercentage),
                 Right(p), minPercentage, maxPercentage)

addOperationPercentages(t, binaryNodes, totalOperations) ==
    LET t1 == SetPercentages(t, binaryNodes, 1, totalOperations)
        percentages == [n \in DOMAIN binaryNodes |->
                            t1[binaryNodes[n]].operationsPercentage]
        minPercentage == OrZero(MathMin(percentages, 1, PosInfinity))
        maxPercentage == OrZero(MathMax(percentages, 1, NegInfinity))
    IN  addNormalizedPercentages(t1, 1, minPercentage, maxPercentage)

(***************************************************************************)
(* calculateNodeMetrics: the whole pass.  The result carries the tree as   *)
(* annotated in place, the returned summary and the local stats object.    *)
(***************************************************************************)
EmptySummary == [totalOperations |-> 0, faultyNodes |-> <<>>]

calculateNodeMetricsNoNullCheck(sizes, t, dts, loopSet) ==
    LET sized == calculateNodeSizes([t |-> t, stats |-> InitialStats], 1, sizes, dts)
        t2    == addSizePercentages(sized.t, 1, sized.stats)
        r     == calculateNodeOperations(
                     [t |-> t2, faultyNodes |-> <<>>, binaryNodes |-> <<>>,
                      returns |-> NoCalls.returns],
                     1, sizes, loopSet)
        done  == [returns |-> r.acc.returns, binaryNodes |-> r.acc.binaryNodes]
    IN  IF r.hasError
        THEN [t |-> resetTreeOperations(r.acc.t, 1),
              summary |-> [totalOperations |-> 0,
                           faultyNodes |-> r.acc.faultyNodes],
              stats |-> sized.stats, calls |-> done]
        ELSE [t |-> addOperationPercentages(
                        [r.acc.t EXCEPT ![1].totalOperations = Num(r.operations)],
                        r.acc.binaryNodes, r.operations),
              summary |-> [totalOperations |-> r.operations,
                           faultyNodes |-> r.acc.faultyNodes],
              stats |-> sized.stats, calls |-> done]

calculateNodeMetrics(sizes, t, dts, loopSet) ==
    IF ~Exists(t, 1)
    THEN [t |-> t, summary |-> EmptySummary, stats |-> NoStats, calls |-> NoCalls]
    ELSE LET sized == calculateNodeSizes([t |-> t, stats |-> InitialStats], 1, sizes, dts)
             t2    == addSizePercentages(sized.t, 1, sized.stats)
             r     == calculateNodeOperations(
                          [t |-> t2, faultyNodes |-> <<>>, binaryNodes |-> <<>>,
                           returns |-> NoCalls.returns],
                          1, sizes, loopSet)
             done  == [returns |-> r.acc.returns, binaryNodes |-> r.acc.binaryNodes]
         IN  IF r.hasError
             THEN [t |-> resetTreeOperations(r.acc.t, 1),
                   summary |-> [totalOperations |-> 0,
                                faultyNodes |-> r.acc.faultyNodes],
                   stats |-> sized.stats, calls |-> done]
             ELSE [t |-> addOperationPercentages(
                             [r.acc.t EXCEPT ![1].totalOperations = Num(r.operations)],
                             r.acc.binaryNodes, r.operations),
                   summary |-> [totalOperations |-> r.operations,
                                faultyNodes |-> r.acc.faultyNodes],
                   stats |-> sized.stats, calls |-> done]

(***************************************************************************)
(* Specification.  A behaviour either hands a tree to calculateNodeMetrics *)
(* (pc = "ready", then "done") or hands a dimension classification to the  *)
(* two exported cost functions (pc = "pure").                              *)
(***************************************************************************)
NoSummary == [totalOperations |-> -1, faultyNodes |-> <<>>]

NoPureOut == [operations |-> -1, byteAccesses |-> -1]

EmptyTree == [p \in Positions |-> NoNode]

\* the classification that puts each letter under the key KeyOrder[a[letter]],
\* or under no key when a[letter] = 0
ClassificationOf(a) ==
    LET under(n) == Keep(LetterOrder, { x \in Letters : a[x] = n })
    IN  [primitive |-> [cb |-> under(1), mb |-> under(2),
                        nb |-> under(3), kb |-> under(4)],
         loop      |-> [bc |-> under(5), bm |-> under(6),
                        bn |-> under(7), bk |-> under(8)]]

\* values of the variables a behaviour does not use
NoArgs == <<>>

NodeIds == 1 .. MaxPanelNodes

\* activeNodeIndicesPanel = null
NoPanel == 0

\* timeoutRef: null, the id of a pending timer or the id of a timer that has
\* fired; timers: the timers set by instances of this node and neither
\* cleared nor fired
Unmounted ==
    [mounted |-> FALSE, showTooltip |-> FALSE, timeoutRef |-> "null",
     timers |-> 0, isTouchActive |-> FALSE]

Mounted ==
    [mounted |-> TRUE, showTooltip |-> FALSE, timeoutRef |-> "null",
     timers |-> 0, isTouchActive |-> FALSE]

NoEvent == [kind |-> "none", id |-> 0, touches |-> 0]

CallIdle == args = NoArgs /\ ret = Undefined

EditIdle == passes = 0 /\ edits = 0

PanelIdle ==
    /\ activeNodeIndicesPanel = NoPanel
    /\ nodes = [n \in NodeIds |-> Unmounted]
    /\ isDragging = FALSE
    /\ event = NoEvent
    /\ touchOnly = TRUE

InitTree ==
    /\ \E S \in Shapes : \E v \in [S -> ValueMenu] : tree = MakeTree(S, v)
    /\ indexSizes \in TreeSizeMenu
    /\ dataTypeSize \in DataTypeSizes
    /\ summary = NoSummary
    /\ stats = NoStats
    /\ pc = "ready"
    /\ dimTypes = EmptyDimTypes
    /\ pureOut = NoPureOut
    /\ calls = NoCalls
    /\ CallIdle
    /\ PanelIdle
    /\ EditIdle

\* the complete tree of three levels, in which sibling subtrees and their
\* parent are all contractions
CompleteShape == 1 .. 7

InitComplete ==
    /\ \E v \in [CompleteShape -> ValueMenu] : tree = MakeTree(CompleteShape, v)
    /\ indexSizes \in TreeSizeMenu
    /\ dataTypeSize \in DataTypeSizes
    /\ summary = NoSummary
    /\ stats = NoStats
    /\ pc = "ready"
    /\ dimTypes = EmptyDimTypes
    /\ pureOut = NoPureOut
    /\ calls = NoCalls
    /\ CallIdle
    /\ PanelIdle
    /\ EditIdle

InitPure ==
    /\ tree = EmptyTree
    /\ indexSizes \in SizeMenu
    /\ dataTypeSize = 0
    /\ summary = NoSummary
    /\ stats = NoStats
    /\ pc = "pure"
    /\ \E a \in [Letters -> 0 .. Len(KeyOrder)] : dimTypes = ClassificationOf(a)
    /\ pureOut = NoPureOut
    /\ calls = NoCalls
    /\ CallIdle
    /\ PanelIdle
    /\ EditIdle

\* inputs of a direct call of normalizeToPercentage
NumberMenu ==
    { Num(0), Num(24), Num(100), Frac(100, 3), NaN, Undefined,
      PosInfinity, NegInfinity }

InitNormalize ==
    /\ tree = EmptyTree
    /\ indexSizes = FixtureSizes
    /\ dataTypeSize = 0
    /\ summary = NoSummary
    /\ stats = NoStats
    /\ pc = "normalize"
    /\ dimTypes = EmptyDimTypes
    /\ pureOut = NoPureOut
    /\ calls = NoCalls
    /\ \E v \in NumberMenu, lo \in NumberMenu, hi \in NumberMenu :
          args = [value |-> v, min |-> lo, max |-> hi]
    /\ ret = Undefined
    /\ PanelIdle
    /\ EditIdle

\* inputs of a direct call of calculateDimensionProduct
RECURSIVE SeqsUpTo(_, _)
SeqsUpTo(S, n) ==
    IF n = 0 THEN { <<>> }
    ELSE LET shorter == SeqsUpTo(S, n - 1)
         IN  shorter \cup { Append(q, x) : q \in shorter, x \in S }

InitialValues == {-1, 0, 1, 3}

InitProduct ==
    /\ tree = EmptyTree
    /\ indexSizes \in SizeMenu
    /\ dataTypeSize = 0
    /\ summary = NoSummary
    /\ stats = NoStats
    /\ pc = "product"
    /\ dimTypes = EmptyDimTypes
    /\ pureOut = NoPureOut
    /\ calls = NoCalls
    /\ \E q \in SeqsUpTo(Letters, MaxLen), v \in InitialValues :
          args = [dimensions |-> q, initialValue |-> v]
    /\ ret = Undefined
    /\ PanelIdle
    /\ EditIdle

Init == InitTree \/ InitComplete \/ InitPure \/ InitNormalize \/ InitProduct

CalculateNodeMetrics ==
    /\ pc = "ready"
    /\ \E loopSet \in LoopChoices :
          LET r == calculateNodeMetrics(indexSizes, tree, dataTypeSize, loopSet)
          IN  /\ tree' = r.t
              /\ summary' = r.summary
              /\ stats' = r.stats
              /\ calls' = r.calls
    /\ pc' = "done"
    /\ UNCHANGED <<indexSizes, dataTypeSize, dimTypes, pureOut>>
    /\ UNCHANGED <<callVars, panelVars, editVars>>

CalculateOperations ==
    /\ pc = "pure"
    /\ pureOut.operations = -1
    /\ pureOut' = [pureOut EXCEPT !.operations = calculateOperations(dimTypes, indexSizes)]
    /\ UNCHANGED <<tree, indexSizes, dataTypeSize, summary, stats, pc, dimTypes,
                   calls>>
    /\ UNCHANGED <<callVars, panelVars, editVars>>

CalculateByteAccesses ==
    /\ pc = "pure"
    /\ pureOut.byteAccesses = -1
    /\ pureOut' = [pureOut EXCEPT !.byteAccesses =
                                      calculateByteAccesses(dimTypes, indexSizes)]
    /\ UNCHANGED <<tree, indexSizes, dataTypeSize, summary, stats, pc, dimTypes,
                   calls>>
    /\ UNCHANGED <<callVars, panelVars, editVars>>

NormalizeToPercentage ==
    /\ pc = "normalize"
    /\ ret' = normalizeToPercentage(args.value, args.min, args.max)
    /\ pc' = "normalized"
    /\ UNCHANGED <<tree, indexSizes, dataTypeSize, summary, stats, dimTypes,
                   pureOut, calls, args>>
    /\ UNCHANGED <<panelVars, editVars>>

CalculateDimensionProduct ==
    /\ pc = "product"
    /\ ret' = calculateDimensionProduct(args.dimensions, indexSizes, args.initialValue)
    /\ pc' = "multiplied"
    /\ UNCHANGED <<tree, indexSizes, dataTypeSize, summary, stats, dimTypes,
                   pureOut, calls, args>>
    /\ UNCHANGED <<panelVars, editVars>>

Next ==
    \/ CalculateNodeMetrics
    \/ CalculateOperations
    \/ CalculateByteAccesses
    \/ NormalizeToPercentage
    \/ CalculateDimensionProduct

Spec == Init /\ [][Next]_vars

(***************************************************************************)
(* An editing session: the UI layer adds and removes children and changes  *)
(* values on the node objects it keeps, and calls calculateNodeMetrics on  *)
(* them again and again; annotations written by one pass are still on the  *)
(* objects when the next pass runs.                                        *)
(***************************************************************************)
\* the root and its two child slots
EditPositions == {1, Left(1), Right(1)}

EditShapes == { S \in SUBSET EditPositions : PrefixClosed(S) }

InitEdit ==
    /\ \E S \in EditShapes : \E v \in [S -> ValueMenu] : tree = MakeTree(S, v)
    /\ indexSizes = FixtureSizes
    /\ dataTypeSize = 4
    /\ summary = NoSummary
    /\ stats = NoStats
    /\ pc = "edited"
    /\ dimTypes = EmptyDimTypes
    /\ pureOut = NoPureOut
    /\ calls = NoCalls
    /\ CallIdle
    /\ PanelIdle
    /\ passes = 0
    /\ edits = 0

\* calculateNodeMetrics on the tree as the earlier passes and edits left it
MetricsPass ==
    /\ pc \in {"edited", "passed"}
    /\ passes < MaxPasses
    /\ \E loopSet \in LoopChoices :
          LET r == calculateNodeMetrics(indexSizes, tree, dataTypeSize, loopSet)
          IN  /\ tree' = r.t
              /\ summary' = r.summary
              /\ stats' = r.stats
              /\ calls' = r.calls
    /\ pc' = "passed"
    /\ passes' = passes + 1
    /\ UNCHANGED <<indexSizes, dataTypeSize, dimTypes, pureOut, edits>>
    /\ UNCHANGED <<callVars, panelVars>>

\* p is q or below q
RECURSIVE Below(_, _)
Below(p, q) == p = q \/ (p > q /\ Below(p \div 2, q))

\* parent.left = {value: v} or parent.right = {value: v} (the root: a new tree)
AddChild(p, v) ==
    /\ pc \in {"edited", "passed"}
    /\ edits < MaxEdits
    /\ p \in EditPositions
    /\ ~Exists(tree, p)
    /\ p = 1 \/ Exists(tree, p \div 2)
    /\ tree' = [tree EXCEPT ![p] = FreshNode(v)]
    /\ pc' = "edited"
    /\ passes' = 0
    /\ edits' = edits + 1
    /\ UNCHANGED <<indexSizes, dataTypeSize, summary, stats, dimTypes, pureOut, calls>>
    /\ UNCHANGED <<callVars, panelVars>>

\* parent.left = null or parent.right = null (the root: the tree becomes null)
RemoveChild(p) ==
    /\ pc \in {"edited", "passed"}
    /\ edits < MaxEdits
    /\ Exists(tree, p)
    /\ tree' = [q \in Positions |-> IF Below(q, p) THEN NoNode ELSE tree[q]]
    /\ pc' = "edited"
    /\ passes' = 0
    /\ edits' = edits + 1
    /\ UNCHANGED <<indexSizes, dataTypeSize, summary, stats, dimTypes, pureOut, calls>>
    /\ UNCHANGED <<callVars, panelVars>>

\* node.value = v
ChangeValue(p, v) ==
    /\ pc \in {"edited", "passed"}
    /\ edits < MaxEdits
    /\ Exists(tree, p)
    /\ tree[p].value # v
    /\ tree' = [tree EXCEPT ![p].value = v]
    /\ pc' = "edited"
    /\ passes' = 0
    /\ edits' = edits + 1
    /\ UNCHANGED <<indexSizes, dataTypeSize, summary, stats, dimTypes, pureOut, calls>>
    /\ UNCHANGED <<callVars, panelVars>>

NextEdit ==
    \/ MetricsPass
    \/ \E p \in EditPositions, v \in ValueMenu : AddChild(p, v)
    \/ \E p \in EditPositions : RemoveChild(p)
    \/ \E p \in EditPositions, v \in ValueMenu : ChangeValue(p, v)

SpecEdit == InitEdit /\ [][NextEdit]_vars

(***************************************************************************)
(* The CustomNode instances of the flow diagram and the panel they share.  *)
(***************************************************************************)
MetricIdle ==
    /\ tree = EmptyTree
    /\ indexSizes = FixtureSizes
    /\ dataTypeSize = 0
    /\ summary = NoSummary
    /\ stats = NoStats
    /\ pc = "panel"
    /\ dimTypes = EmptyDimTypes
    /\ pureOut = NoPureOut
    /\ calls = NoCalls

\* the diagram after its first render: every node mounted, nothing shown
InitPanel ==
    /\ MetricIdle
    /\ CallIdle
    /\ activeNodeIndicesPanel = NoPanel
    /\ nodes = [n \in NodeIds |-> Mounted]
    /\ isDragging = FALSE
    /\ event = NoEvent
    /\ touchOnly = TRUE
    /\ EditIdle

\* e.touches.length of a touch-start
TouchCounts == {1, 2}

\* timers one node may have pending
MaxTimers == 2

\* clearTimeout of a timer that has fired does nothing
clearTimeoutSafely(node) ==
    IF node.timeoutRef = "null" THEN node
    ELSE [node EXCEPT !.timers = IF node.timeoutRef = "pending" THEN @ - 1 ELSE @,
                      !.timeoutRef = "null"]

handleInteractionStartUnguarded(node) ==
    [clearTimeoutSafely(node) EXCEPT !.showTooltip = TRUE]

handleInteractionStart(node) ==
    IF isDragging THEN node
    ELSE [clearTimeoutSafely(node) EXCEPT !.showTooltip = TRUE]

handleInteractionEndNoClear(node) ==
    [node EXCEPT !.timers = @ + 1, !.timeoutRef = "pending"]

handleInteractionEnd(node) ==
    [clearTimeoutSafely(node) EXCEPT !.timers = @ + 1, !.timeoutRef = "pending"]

MouseEnter(n) ==
    /\ nodes[n].mounted
    /\ nodes' = [nodes EXCEPT ![n] =
                    IF nodes[n].isTouchActive THEN @ ELSE handleInteractionStart(@)]
    /\ event' = [kind |-> "mouseenter", id |-> n, touches |-> 0]
    /\ touchOnly' = FALSE
    /\ UNCHANGED <<activeNodeIndicesPanel, isDragging>>
    /\ UNCHANGED <<metricVars, callVars, editVars>>

MouseLeave(n) ==
    /\ nodes[n].mounted
    /\ nodes' = [nodes EXCEPT ![n] =
                    IF nodes[n].isTouchActive THEN @ ELSE handleInteractionEnd(@)]
    /\ nodes'[n].timers <= MaxTimers
    /\ event' = [kind |-> "mouseleave", id |-> n, touches |-> 0]
    /\ touchOnly' = FALSE
    /\ UNCHANGED <<activeNodeIndicesPanel, isDragging>>
    /\ UNCHANGED <<metricVars, callVars, editVars>>

\* the rendered NodeIndicesPanel calls the two handlers directly
PanelMouseEnter(n) ==
    /\ nodes[n].mounted
    /\ nodes[n].showTooltip
    /\ nodes' = [nodes EXCEPT ![n] = handleInteractionStart(@)]
    /\ event' = [kind |-> "panelmouseenter", id |-> n, touches |-> 0]
    /\ touchOnly' = FALSE
    /\ UNCHANGED <<activeNodeIndicesPanel, isDragging>>
    /\ UNCHANGED <<metricVars, callVars, editVars>>

PanelMouseLeave(n) ==
    /\ nodes[n].mounted
    /\ nodes[n].showTooltip
    /\ nodes' = [nodes EXCEPT ![n] = handleInteractionEnd(@)]
    /\ nodes'[n].timers <= MaxTimers
    /\ event' = [kind |-> "panelmouseleave", id |-> n, touches |-> 0]
    /\ touchOnly' = FALSE
    /\ UNCHANGED <<activeNodeIndicesPanel, isDragging>>
    /\ UNCHANGED <<metricVars, callVars, editVars>>

\* a 100 ms timer of handleInteractionEnd expires: the one timeoutRef holds
\* or one that is no longer referenced; the callback of a mounted instance
\* hides its panel
TimeoutFires(n) ==
    /\ nodes[n].timers > 0
    /\ \E referenced \in BOOLEAN :
          /\ referenced => nodes[n].timeoutRef = "pending"
          /\ ~referenced =>
                nodes[n].timers > (IF nodes[n].timeoutRef = "pending" THEN 1 ELSE 0)
          /\ nodes' = [nodes EXCEPT
                          ![n].timers = @ - 1,
                          ![n].timeoutRef = IF referenced THEN "fired" ELSE @,
                          ![n].showTooltip = IF nodes[n].mounted THEN FALSE ELSE @]
    /\ event' = [kind |-> "timeout", id |-> n, touches |-> 0]
    /\ touchOnly' = FALSE
    /\ UNCHANGED <<activeNodeIndicesPanel, isDragging>>
    /\ UNCHANGED <<metricVars, callVars, editVars>>

handleTouchStart(n, touches) ==
    IF isDragging \/ touches > 1
    THEN UNCHANGED <<activeNodeIndicesPanel, nodes>>
    ELSE IF activeNodeIndicesPanel # NoPanel /\ activeNodeIndicesPanel # n
    THEN /\ activeNodeIndicesPanel' = NoPanel
         /\ nodes' = [nodes EXCEPT ![n].showTooltip = FALSE]
    ELSE /\ activeNodeIndicesPanel' = n
         /\ nodes' = [nodes EXCEPT ![n] =
                         [clearTimeoutSafely(@) EXCEPT !.isTouchActive = TRUE,
                                                       !.showTooltip = TRUE]]

TouchStart(n, touches) ==
    /\ nodes[n].mounted
    /\ handleTouchStart(n, touches)
    /\ event' = [kind |-> "touchstart", id |-> n, touches |-> touches]
    /\ UNCHANGED <<isDragging, touchOnly>>
    /\ UNCHANGED <<metricVars, callVars, editVars>>

\* handleTouchMove and handleTouchEnd only stop the event
TouchMove(n) ==
    /\ nodes[n].mounted
    /\ event' = [kind |-> "touchmove", id |-> n, touches |-> 1]
    /\ touchOnly' = FALSE
    /\ UNCHANGED <<activeNodeIndicesPanel, nodes, isDragging>>
    /\ UNCHANGED <<metricVars, callVars, editVars>>

TouchEnd(n) ==
    /\ nodes[n].mounted
    /\ event' = [kind |-> "touchend", id |-> n, touches |-> 0]
    /\ touchOnly' = FALSE
    /\ UNCHANGED <<activeNodeIndicesPanel, nodes, isDragging>>
    /\ UNCHANGED <<metricVars, callVars, editVars>>

TouchCancel(n) ==
    /\ nodes[n].mounted
    /\ activeNodeIndicesPanel' = NoPanel
    /\ nodes' = [nodes EXCEPT ![n] =
                    [clearTimeoutSafely(@) EXCEPT !.isTouchActive = FALSE,
                                                  !.showTooltip = FALSE]]
    /\ event' = [kind |-> "touchcancel", id |-> n, touches |-> 0]
    /\ touchOnly' = FALSE
    /\ UNCHANGED isDragging
    /\ UNCHANGED <<metricVars, callVars, editVars>>

\* the cleanup of the effect keyed on id
UnmountCleanupAlways(active, id) == NoPanel

UnmountCleanup(active, id) == IF active = id THEN NoPanel ELSE active

\* both cleanups run; state and refs of the instance are discarded
Unmount(n) ==
    /\ nodes[n].mounted
    /\ activeNodeIndicesPanel' = UnmountCleanup(activeNodeIndicesPanel, n)
    /\ nodes' = [nodes EXCEPT ![n] =
                    [Unmounted EXCEPT !.timers = clearTimeoutSafely(nodes[n]).timers]]
    /\ event' = [kind |-> "unmount", id |-> n, touches |-> 0]
    /\ touchOnly' = FALSE
    /\ UNCHANGED isDragging
    /\ UNCHANGED <<metricVars, callVars, editVars>>

\* a fresh instance; its forceCloseTooltip effect finds showTooltip false
Mount(n) ==
    /\ ~nodes[n].mounted
    /\ nodes' = [nodes EXCEPT ![n] = [Mounted EXCEPT !.timers = nodes[n].timers]]
    /\ event' = [kind |-> "mount", id |-> n, touches |-> 0]
    /\ touchOnly' = FALSE
    /\ UNCHANGED <<activeNodeIndicesPanel, isDragging>>
    /\ UNCHANGED <<metricVars, callVars, editVars>>

\* the parent re-renders with a new isDragging; where forceCloseTooltip
\* became true the effect clears the timer and hides the panel
forceCloseEffect(node, dragging) ==
    IF dragging /\ node.mounted
    THEN [clearTimeoutSafely(node) EXCEPT !.showTooltip = FALSE]
    ELSE node

SetDragging(dragging) ==
    /\ dragging # isDragging
    /\ isDragging' = dragging
    /\ nodes' = [n \in NodeIds |-> forceCloseEffect(nodes[n], dragging)]
    /\ event' = [kind |-> "drag", id |-> 0, touches |-> 0]
    /\ touchOnly' = FALSE
    /\ UNCHANGED activeNodeIndicesPanel
    /\ UNCHANGED <<metricVars, callVars, editVars>>

NextPanel ==
    \/ \E n \in NodeIds : MouseEnter(n)
    \/ \E n \in NodeIds : MouseLeave(n)
    \/ \E n \in NodeIds : PanelMouseEnter(n)
    \/ \E n \in NodeIds : PanelMouseLeave(n)
    \/ \E n \in NodeIds : TimeoutFires(n)
    \/ \E n \in NodeIds, touches \in TouchCounts : TouchStart(n, touches)
    \/ \E n \in NodeIds : TouchMove(n)
    \/ \E n \in NodeIds : TouchEnd(n)
    \/ \E n \in NodeIds : TouchCancel(n)
    \/ \E n \in NodeIds : Unmount(n)
    \/ \E n \in NodeIds : Mount(n)
    \/ \E dragging \in BOOLEAN : SetDragging(dragging)

SpecPanel == InitPanel /\ [][NextPanel]_vars

(***************************************************************************)
(* Vocabulary of the properties                                            *)
(***************************************************************************)
Nodes(t) == { p \in Positions : t[p].exists }

IsBinary(t, p) == Exists(t, p) /\ Exists(t, Left(p)) /\ Exists(t, Right(p))

IsLeaf(t, p) == Exists(t, p) /\ ~Exists(t, Left(p)) /\ ~Exists(t, Right(p))

BinaryNodes(t) == { p \in Positions : IsBinary(t, p) }

\* the operations pass descends from a node only if the node has a left child
RECURSIVE Visited(_, _)
Visited(t, p) ==
    /\ Exists(t, p)
    /\ p = 1 \/ (Visited(t, p \div 2) /\ Exists(t, Left(p \div 2)))

\* a binary node the pass classifies and whose classification is refused
FailsClassification(t, p) ==
    /\ IsBinary(t, p)
    /\ Visited(t, p)
    /\ ClassifierFails(t[p].value, t[Left(p)].value, t[Right(p)].value)

SomeNodeFails(t) == \E p \in Positions : FailsClassification(t, p)

RECURSIVE SumOver(_, _)
SumOver(f, S) ==
    IF S = {} THEN 0
    ELSE LET x == CHOOSE x \in S : TRUE IN f[x] + SumOver(f, S \ {x})

EntryOrOne(sizes, x) == IF x \in DOMAIN sizes THEN sizes[x] ELSE 1

\* product of the sizes of the letters of seq, last letter first
RECURSIVE ProductOfSizes(_, _)
ProductOfSizes(seq, sizes) ==
    IF Len(seq) = 0 THEN 1
    ELSE ProductOfSizes(SubSeq(seq, 1, Len(seq) - 1), sizes)
             * EntryOrOne(sizes, seq[Len(seq)])

TensorSizes(t) == [p \in Positions |-> IF IsNum(t[p].tensorSize) THEN t[p].tensorSize.n ELSE 0]

\* the operations field of every node that carries one
OperationsOf(t) == [p \in Positions |-> IF IsNum(t[p].operations) THEN t[p].operations.n ELSE 0]

Done == pc = "done" /\ Exists(tree, 1)

IsFixtureTree(t) ==
    /\ Nodes(t) = {1, 2, 3}
    /\ t[1].value = <<"i", "j">>
    /\ t[2].value = <<"i", "k">>
    /\ t[3].value = <<"k", "j">>

\* the extents of the four roles of a classification
KLetters(dt) == dt.primitive.kb \o dt.loop.bk

CLetters(dt) == dt.primitive.cb \o dt.loop.bc

MLetters(dt) == dt.primitive.mb \o dt.loop.bm

NLetters(dt) == dt.primitive.nb \o dt.loop.bn

(***************************************************************************)
(* C1: when a binary node fails classification, the pass returns           *)
(* totalOperations = 0 and a non-empty faultyNodes, every node has         *)
(* operations, operationsPercentage and normalizedPercentage null, and     *)
(* every node still has its tensorSize and sizePercentage.                 *)
(***************************************************************************)
C1_FaultClearsOperations ==
    (Done /\ SomeNodeFails(tree)) =>
        /\ summary.totalOperations = 0
        /\ summary.faultyNodes # <<>>
        /\ \A p \in Nodes(tree) :
              /\ tree[p].operations = Null
              /\ tree[p].operationsPercentage = Null
              /\ tree[p].normalizedPercentage = Null
              /\ IsNum(tree[p].tensorSize)
              /\ tree[p].sizePercentage \notin {Undefined, Null}

C1_Witness ==
    /\ Done
    /\ FailsClassification(tree, 2)
    /\ ~FailsClassification(tree, 1)
    /\ Exists(tree, 3)
    /\ dataTypeSize = 4

(***************************************************************************)
(* C2: on a pass without a classification failure faultyNodes is empty,    *)
(* totalOperations is the sum of the operations fields of the binary       *)
(* nodes, and the root's totalOperations field holds the same value.       *)
(***************************************************************************)
C2_SuccessTotal ==
    (Done /\ ~SomeNodeFails(tree)) =>
        /\ summary.faultyNodes = <<>>
        /\ summary.totalOperations = SumOver(OperationsOf(tree), BinaryNodes(tree))
        /\ tree[1].totalOperations = Num(summary.totalOperations)

C2_Witness ==
    /\ Done
    /\ ~SomeNodeFails(tree)
    /\ IsBinary(tree, 1)
    /\ IsBinary(tree, 2)
    /\ summary.totalOperations > tree[1].operations.n
    /\ tree[2].operations.n > 1

(***************************************************************************)
(* C3: a tree without a two-child node yields totalOperations = 0 and an   *)
(* empty faultyNodes.                                                      *)
(***************************************************************************)
C3_NoBinaryNoOperations ==
    (pc = "done" /\ BinaryNodes(tree) = {}) =>
        /\ summary.totalOperations = 0
        /\ summary.faultyNodes = <<>>

C3_Witness ==
    /\ Done
    /\ BinaryNodes(tree) = {}
    /\ Exists(tree, 2)
    /\ Exists(tree, 4)
    /\ summary.totalOperations = 0

(***************************************************************************)
(* C4: after a pass that finds a faulty node no node keeps an operation    *)
(* annotation: byteAccesses and totalOperations are cleared like           *)
(* operations, operationsPercentage and normalizedPercentage.              *)
(***************************************************************************)
C4_FaultClearsEveryAnnotation ==
    (Done /\ summary.faultyNodes # <<>>) =>
        \A p \in Nodes(tree) :
            /\ ~IsNum(tree[p].operations)
            /\ ~IsNum(tree[p].operationsPercentage)
            /\ ~IsNum(tree[p].normalizedPercentage)
            /\ ~IsNum(tree[p].byteAccesses)
            /\ ~IsNum(tree[p].totalOperations)

(***************************************************************************)
(* C5: calculateOperations returns 2*cmn*k - cmn, k the product of the     *)
(* sizes of the letters under kb and bk, cmn the product of the sizes of   *)
(* the letters under the other keys; the fixture i=2, j=3, k=4 gives 42.   *)
(***************************************************************************)
C5_OperationsFormula ==
    /\ pureOut.operations # -1 =>
          LET k   == ProductOfSizes(KLetters(dimTypes), indexSizes)
              cmn == ProductOfSizes(CLetters(dimTypes) \o MLetters(dimTypes)
                                       \o NLetters(dimTypes), indexSizes)
          IN  /\ pureOut.operations = 2 * cmn * k - cmn
              /\ (/\ indexSizes = FixtureSizes
                  /\ Elems(KLetters(dimTypes)) = {"k"}
                  /\ Elems(CLetters(dimTypes) \o MLetters(dimTypes)
                              \o NLetters(dimTypes)) = {"i", "j"})
                     => pureOut.operations = 42
    /\ (Done /\ IsFixtureTree(tree) /\ indexSizes = FixtureSizes)
          => tree[1].operations = Num(42)

C5_Witness ==
    /\ pureOut.operations = 42
    /\ indexSizes = FixtureSizes
    /\ dimTypes.primitive.mb = <<"i">>
    /\ dimTypes.loop.bn = <<"j">>
    /\ dimTypes.loop.bk = <<"k">>

(***************************************************************************)
(* C6: calculateByteAccesses returns c*m*n + c*n*k + c*m*k, every tensor   *)
(* including the batch extent c.                                           *)
(***************************************************************************)
C6_ByteAccessesWithBatch ==
    pureOut.byteAccesses # -1 =>
        LET c == ProductOfSizes(CLetters(dimTypes), indexSizes)
            m == ProductOfSizes(MLetters(dimTypes), indexSizes)
            n == ProductOfSizes(NLetters(dimTypes), indexSizes)
            k == ProductOfSizes(KLetters(dimTypes), indexSizes)
        IN  pureOut.byteAccesses = c * m * n + c * n * k + c * m * k

(***************************************************************************)
(* C7: without batch letters calculateByteAccesses returns                 *)
(* mDim*nDim + nDim*kDim + mDim*kDim; the fixture node gets 26.            *)
(***************************************************************************)
C7_ByteAccessesNoBatch ==
    /\ (pureOut.byteAccesses # -1 /\ CLetters(dimTypes) = <<>>) =>
          LET m == ProductOfSizes(MLetters(dimTypes), indexSizes)
              n == ProductOfSizes(NLetters(dimTypes), indexSizes)
              k == ProductOfSizes(KLetters(dimTypes), indexSizes)
          IN  pureOut.byteAccesses = m * n + n * k + m * k
    /\ (Done /\ IsFixtureTree(tree) /\ indexSizes = FixtureSizes)
          => tree[1].byteAccesses = Num(26)

C7_Witness ==
    /\ pureOut.byteAccesses = 26
    /\ indexSizes = FixtureSizes
    /\ CLetters(dimTypes) = <<>>
    /\ MLetters(dimTypes) = <<"i">>
    /\ NLetters(dimTypes) = <<"j">>
    /\ KLetters(dimTypes) = <<"k">>

(***************************************************************************)
(* C8 as stated: the denominator of sizePercentage is the sum of the       *)
(* tensorSize values of the leaves.                                        *)
(***************************************************************************)
C8_TotalIsLeafSum ==
    Done =>
        stats.totalTensorSize =
            Num(SumOver(TensorSizes(tree), { p \in Positions : IsLeaf(tree, p) }))

(***************************************************************************)
(* C8 amended: the denominator of every node's sizePercentage is the sum   *)
(* of the tensorSize values of all nodes of the tree, internal nodes       *)
(* included.                                                               *)
(***************************************************************************)
C8_TotalIsAllNodesSum ==
    Done =>
        LET total == Num(SumOver(TensorSizes(tree), Nodes(tree)))
        IN  /\ stats.totalTensorSize = total
            /\ \A p \in Nodes(tree) :
                  tree[p].sizePercentage = JsTimes100(JsDiv(tree[p].tensorSize, total))

C8_Witness ==
    /\ Done
    /\ IsBinary(tree, 1)
    /\ dataTypeSize = 4
    /\ stats.totalTensorSize.n >
           SumOver(TensorSizes(tree), { p \in Positions : IsLeaf(tree, p) })
    /\ tree[2].sizePercentage # tree[3].sizePercentage

(***************************************************************************)
(* C9: after a pass, faulty or not, every node has tensorSize = product of *)
(* the sizes of its letters times dataTypeSize, and the statistics are the *)
(* sum, the maximum and the minimum of tensorSize over all nodes.          *)
(***************************************************************************)
C9_SizesAndStats ==
    Done =>
        LET sz == TensorSizes(tree)
        IN  /\ \A p \in Nodes(tree) :
                  tree[p].tensorSize =
                      Num(ProductOfSizes(tree[p].value, indexSizes) * dataTypeSize)
            /\ stats.totalTensorSize.n = SumOver(sz, Nodes(tree))
            /\ IsNum(stats.maxTensorSize) /\ IsNum(stats.minTensorSize)
            /\ \E p \in Nodes(tree) : stats.maxTensorSize.n = sz[p]
            /\ \E p \in Nodes(tree) : stats.minTensorSize.n = sz[p]
            /\ \A p \in Nodes(tree) :
                  stats.minTensorSize.n <= sz[p] /\ sz[p] <= stats.maxTensorSize.n

C9_Witness ==
    /\ Done
    /\ summary.faultyNodes # <<>>
    /\ dataTypeSize = 4
    /\ stats.minTensorSize.n < stats.maxTensorSize.n
    /\ Exists(tree, 4)

(***************************************************************************)
(* C10: with a total tensor size of zero every node's sizePercentage is 0  *)
(* and no annotation of the pass is NaN or infinite.                       *)
(***************************************************************************)
C10_ZeroTotalGuarded ==
    (Done /\ stats.totalTensorSize = Num(0)) =>
        \A p \in Nodes(tree) :
            /\ tree[p].sizePercentage = Num(0)
            /\ \A v \in { tree[p].sizePercentage, tree[p].normalizedSizePercentage,
                           tree[p].operationsPercentage, tree[p].normalizedPercentage } :
                  v \notin {NaN, PosInfinity, NegInfinity}

\* a pass that returned without an error flag
Successful == Done /\ ~calls.returns[1].hasError

(***************************************************************************)
(* C11 as stated: after a successful pass over a tree without earlier      *)
(* annotations every two-child node has operationsPercentage,              *)
(* normalizedPercentage and totalOperations (the tree total) set, and      *)
(* every leaf and single-child node has operationsPercentage and           *)
(* normalizedPercentage unset.                                             *)
(***************************************************************************)
C11_EveryBinaryNodeAnnotated ==
    Successful =>
        \A p \in Nodes(tree) :
            IF IsBinary(tree, p)
            THEN /\ tree[p].operationsPercentage # Undefined
                 /\ tree[p].normalizedPercentage # Undefined
                 /\ tree[p].totalOperations = Num(summary.totalOperations)
            ELSE /\ tree[p].operationsPercentage = Undefined
                 /\ tree[p].normalizedPercentage = Undefined

(***************************************************************************)
(* C11 amended: the three fields are set on every two-child node the       *)
(* operations pass visits; a two-child node below a node without a left    *)
(* child gets neither operationsPercentage nor totalOperations; leaves and *)
(* single-child nodes have both percentages unset.                         *)
(***************************************************************************)
C11_VisitedBinaryNodesAnnotated ==
    Successful =>
        \A p \in Nodes(tree) :
            /\ (IsBinary(tree, p) /\ Visited(tree, p)) =>
                  /\ IsNum(tree[p].operationsPercentage)
                  /\ IsNum(tree[p].normalizedPercentage)
                  /\ tree[p].totalOperations = Num(summary.totalOperations)
            /\ (IsBinary(tree, p) /\ ~Visited(tree, p)) =>
                  /\ tree[p].operationsPercentage = Undefined
                  /\ tree[p].totalOperations = Undefined
            /\ ~IsBinary(tree, p) =>
                  /\ tree[p].operationsPercentage = Undefined
                  /\ tree[p].normalizedPercentage = Undefined

C11_Witness ==
    /\ Successful
    /\ IsBinary(tree, 1)
    /\ IsBinary(tree, 2)
    /\ IsLeaf(tree, 3)
    /\ tree[2].totalOperations = Num(summary.totalOperations)
    /\ tree[2].operationsPercentage # tree[1].operationsPercentage
    /\ tree[3].normalizedPercentage = Undefined

\* the nodes below and including p: left subtree, right subtree, node
RECURSIVE PostOrder(_, _)
PostOrder(t, p) ==
    IF ~Exists(t, p) THEN <<>>
    ELSE PostOrder(t, Left(p)) \o PostOrder(t, Right(p)) \o <<p>>

(***************************************************************************)
(* C12: faultyNodes holds exactly the visited binary nodes whose           *)
(* classification fails, each once, in post-order; a failure does not stop *)
(* the traversal.                                                          *)
(***************************************************************************)
C12_FaultyNodesPostOrder ==
    pc = "done" =>
        summary.faultyNodes =
            SelectSeq(PostOrder(tree, 1), LAMBDA p : FailsClassification(tree, p))

C12_Witness ==
    /\ Done
    /\ summary.faultyNodes = <<2, 3, 1>>

(***************************************************************************)
(* C13: a null tree returns totalOperations = 0 and an empty faultyNodes,  *)
(* whatever indexSizes and dataTypeSize are, and nothing is annotated: no  *)
(* stats object is created and calculateNodeOperations is never called.    *)
(***************************************************************************)
C13_NullTreeShortCircuit ==
    (pc = "done" /\ ~Exists(tree, 1)) =>
        /\ summary = EmptySummary
        /\ tree = EmptyTree
        /\ stats = NoStats
        /\ calls = NoCalls

C13_Witness ==
    /\ pc = "done"
    /\ ~Exists(tree, 1)
    /\ summary.totalOperations = 0
    /\ dataTypeSize = 4

(***************************************************************************)
(* C14 as stated: at a binary node whose classification fails the call     *)
(* adds the node to faultyNodes and returns hasError = true with           *)
(* operations = the sum of the operations returned for its two subtrees.   *)
(***************************************************************************)
C14_FaultReturnsSubtotal ==
    Done =>
        \A p \in Positions :
            FailsClassification(tree, p) =>
                /\ p \in Elems(summary.faultyNodes)
                /\ calls.returns[p].hasError
                /\ calls.returns[p].operations =
                       calls.returns[Left(p)].operations
                           + calls.returns[Right(p)].operations

(***************************************************************************)
(* C14 amended: at a binary node whose classification fails the call adds  *)
(* the node to faultyNodes and returns hasError = true with operations = 0 *)
(* (the subtotal of its subtrees is dropped).                              *)
(***************************************************************************)
C14_FaultReturnsZero ==
    Done =>
        \A p \in Positions :
            FailsClassification(tree, p) =>
                /\ p \in Elems(summary.faultyNodes)
                /\ calls.returns[p].called
                /\ calls.returns[p].hasError
                /\ calls.returns[p].operations = 0

C14_Witness ==
    /\ Done
    /\ FailsClassification(tree, 1)
    /\ calls.returns[2].operations > 0
    /\ ~calls.returns[2].hasError
    /\ calls.returns[1].operations = 0
    /\ calls.returns[1].hasError

(***************************************************************************)
(* C15: a node with a left child and no right child returns the hasError   *)
(* flag and the operations total of its left child, is never classified    *)
(* (it enters neither faultyNodes nor binaryNodes) and gets neither        *)
(* operations nor byteAccesses from the operations pass.                   *)
(***************************************************************************)
C15_PermutationPropagates ==
    Done =>
        \A p \in Positions :
            (Visited(tree, p) /\ Exists(tree, Left(p)) /\ ~Exists(tree, Right(p))) =>
                /\ calls.returns[p].called
                /\ calls.returns[p].hasError = calls.returns[Left(p)].hasError
                /\ calls.returns[p].operations = calls.returns[Left(p)].operations
                /\ p \notin Elems(summary.faultyNodes)
                /\ p \notin Elems(calls.binaryNodes)
                /\ ~IsNum(tree[p].operations)
                /\ tree[p].byteAccesses = Undefined

C15_Witness ==
    /\ Done
    /\ Exists(tree, 2)
    /\ ~Exists(tree, 3)
    /\ FailsClassification(tree, 2)
    /\ calls.returns[1].hasError
    /\ tree[1].byteAccesses = Undefined

(***************************************************************************)
(* C16: a node without a left child is a leaf for the operations pass even *)
(* when it has a right child: it returns hasError = false and              *)
(* operations = 0, no node of its right subtree is visited, gets           *)
(* operations, or enters faultyNodes or the total, and the size pass still *)
(* gives each of them a tensorSize.                                        *)
(***************************************************************************)
C16_RightOnlyIsLeaf ==
    Done =>
        \A p \in Positions :
            (Visited(tree, p) /\ ~Exists(tree, Left(p)) /\ Exists(tree, Right(p))) =>
                /\ calls.returns[p] = [called |-> TRUE, hasError |-> FALSE,
                                       operations |-> 0]
                /\ \A q \in Elems(PostOrder(tree, Right(p))) :
                      /\ ~calls.returns[q].called
                      /\ ~IsNum(tree[q].operations)
                      /\ tree[q].byteAccesses = Undefined
                      /\ q \notin Elems(summary.faultyNodes)
                      /\ q \notin Elems(calls.binaryNodes)
                      /\ IsNum(tree[q].tensorSize)

C16_Witness ==
    /\ Done
    /\ ~Exists(tree, 2)
    /\ IsBinary(tree, 3)
    /\ ClassifierFails(tree[3].value, tree[6].value, tree[7].value)
    /\ summary = EmptySummary
    /\ tree[3].tensorSize.n > 0

(***************************************************************************)
(* C17 as stated: normalizeToPercentage returns 0 whenever min === max;    *)
(* hence a tree whose nodes all have the same tensorSize gets              *)
(* normalizedSizePercentage = 0 everywhere, and a tree with a single       *)
(* binary node gets normalizedPercentage = 0 on it.                        *)
(***************************************************************************)
SameValue(x, y) == x = y /\ x # NaN

AllSizesEqual(t) ==
    \A p, q \in Nodes(t) : t[p].tensorSize = t[q].tensorSize

C18_DimensionProduct ==
    /\ [](pc = "multiplied" =>
            /\ ret = args.initialValue * ProductOfSizes(args.dimensions, indexSizes)
            /\ args.dimensions = <<>> => ret = args.initialValue)
    /\ [][pc = "product" => (args' = args /\ indexSizes' = indexSizes)]_vars

C18_Witness ==
    /\ pc = "multiplied"
    /\ args.dimensions = <<"i", "j", "i">>
    /\ args.initialValue = 3
    /\ indexSizes = [i |-> 2, k |-> 3]
    /\ ret = 12

(***************************************************************************)
(* C19: while every event is a touch-start, at most one node has           *)
(* showTooltip true, and a touch on a node other than the one recorded in  *)
(* activeNodeIndicesPanel closes the panel of the recorded node.           *)
(***************************************************************************)
Shown == { n \in NodeIds : nodes[n].showTooltip }

C19_AtMostOnePanel == touchOnly => Cardinality(Shown) <= 1

(***************************************************************************)
(* C20 as stated: activeNodeIndicesPanel becomes null when its owner       *)
(* unmounts, on a touch-cancel and when a touch starts on a different      *)
(* node; an unmount of another node leaves it unchanged.                   *)
(***************************************************************************)
Owned == activeNodeIndicesPanel # NoPanel

ReleasedByUnmountOrCancel ==
    /\ (event'.kind = "unmount" /\ event'.id = activeNodeIndicesPanel) =>
          activeNodeIndicesPanel' = NoPanel
    /\ event'.kind = "touchcancel" => activeNodeIndicesPanel' = NoPanel
    /\ (event'.kind = "unmount" /\ event'.id # activeNodeIndicesPanel) =>
          activeNodeIndicesPanel' = activeNodeIndicesPanel

C20_ReleasedOnAnyTouchStart ==
    [][/\ ReleasedByUnmountOrCancel
       /\ (event'.kind = "touchstart" /\ Owned /\ event'.id # activeNodeIndicesPanel) =>
             activeNodeIndicesPanel' = NoPanel]_vars

(***************************************************************************)
(* C20 amended: as stated, the touch start being a single-finger touch on  *)
(* a node whose forceCloseTooltip is false.                                *)
(***************************************************************************)
C20_ReleasedOnHandledTouchStart ==
    [][/\ ReleasedByUnmountOrCancel
       /\ (/\ event'.kind = "touchstart"
           /\ event'.touches = 1
           /\ ~isDragging
           /\ Owned
           /\ event'.id # activeNodeIndicesPanel) =>
             activeNodeIndicesPanel' = NoPanel]_vars

\* node 2 has just unmounted while node 1 owns the panel
C20_Witness ==
    /\ event.kind = "unmount"
    /\ event.id = 2
    /\ activeNodeIndicesPanel = 1
    /\ nodes[1].showTooltip

(***************************************************************************)
(* C21: a call of calculateNodeMetrics that follows another call on the    *)
(* unmodified tree, with the same indexSizes and dataTypeSize, returns the *)
(* same summary and leaves every field of every node as the first call     *)
(* left it.                                                                *)
(***************************************************************************)
C21_SecondPassChangesNothing ==
    [][(pc = "passed" /\ pc' = "passed") =>
          (tree' = tree /\ summary' = summary)]_vars

\* two passes in a row over an edited tree whose root is a contraction
C21_Witness ==
    /\ pc = "passed"
    /\ passes = 2
    /\ edits > 0
    /\ IsBinary(tree, 1)
    /\ summary.totalOperations > 0
    /\ IsNum(tree[1].operationsPercentage)

(***************************************************************************)
(* C22: after every successful pass of an editing session a node holds a   *)
(* non-null operations value exactly when it has two children.             *)
(***************************************************************************)
SuccessfulPass == pc = "passed" /\ Exists(tree, 1) /\ ~calls.returns[1].hasError

HoldsOperations(t, p) == t[p].operations # Null /\ t[p].operations # Undefined

C22_NoStaleOperations ==
    SuccessfulPass =>
        \A p \in Nodes(tree) : HoldsOperations(tree, p) <=> IsBinary(tree, p)

(***************************************************************************)
(* C23 as stated: with positive index sizes every classified binary node   *)
(* gets operations >= 1, so after a successful pass over a tree with a     *)
(* binary node totalOperations is at least the number of binary nodes and  *)
(* addOperationPercentages never divides by zero.                          *)
(***************************************************************************)
ClassifiedNodes == { calls.binaryNodes[n] : n \in DOMAIN calls.binaryNodes }

OperationsAtLeastOne ==
    \A p \in ClassifiedNodes : IsNum(tree[p].operations) /\ tree[p].operations.n >= 1

NoZeroDivisor == calls.binaryNodes # <<>> => summary.totalOperations # 0

C23_TotalAtLeastBinaryCount ==
    Successful =>
        /\ OperationsAtLeastOne
        /\ summary.totalOperations >= Cardinality(BinaryNodes(tree))
        /\ NoZeroDivisor

(***************************************************************************)
(* C23 amended: as stated, totalOperations being at least the number of    *)
(* binary nodes the operations pass visits.                                *)
(***************************************************************************)
C23_TotalAtLeastVisitedCount ==
    Successful =>
        /\ OperationsAtLeastOne
        /\ summary.totalOperations >=
               Cardinality({ p \in BinaryNodes(tree) : Visited(tree, p) })
        /\ ClassifiedNodes = { p \in BinaryNodes(tree) : Visited(tree, p) }
        /\ NoZeroDivisor

\* two contractions, one of them without a contraction letter (k = 1)
C23_Witness ==
    /\ Successful
    /\ Len(calls.binaryNodes) = 2
    /\ \E p \in ClassifiedNodes : tree[p].operations = Num(6)
    /\ summary.totalOperations >= 2

(***************************************************************************)
(* C24: while forceCloseTooltip is true no node has showTooltip true,      *)
(* whatever events arrive, and right after the effect ran no node has a    *)
(* pending hide timer.                                                     *)
(***************************************************************************)
C24_ForceCloseKeepsClosed ==
    /\ isDragging => \A n \in NodeIds : ~nodes[n].showTooltip
    /\ (isDragging /\ event.kind = "drag") =>
          \A n \in NodeIds : nodes[n].timers = 0 /\ nodes[n].timeoutRef = "null"

\* a single-finger touch on a mounted node during a drag
C24_Witness ==
    /\ isDragging
    /\ event.kind = "touchstart"
    /\ event.touches = 1
    /\ nodes[event.id].mounted
    /\ ~nodes[event.id].showTooltip
    /\ activeNodeIndicesPanel # NoPanel

(***************************************************************************)
(* C25: with the mouse (no touch active on the node) a mouse-leave leaves  *)
(* exactly one hide timer pending, the panel is closed when a timer fires, *)
(* a mouse-enter on the node or on its open panel cancels the timer and    *)
(* keeps the panel open, a node never has more than one pending timer, and *)
(* an unmounted node has none.                                             *)
(***************************************************************************)
MouseLeft(n) ==
    /\ event'.id = n
    /\ \/ event'.kind = "mouseleave" /\ ~nodes[n].isTouchActive
       \/ event'.kind = "panelmouseleave"

MouseEntered(n) ==
    /\ event'.id = n
    /\ \/ event'.kind = "mouseenter" /\ ~nodes[n].isTouchActive
       \/ event'.kind = "panelmouseenter"

C25_SingleHideTimer ==
    /\ [](\A n \in NodeIds :
             /\ nodes[n].timers <= 1
             /\ ~nodes[n].mounted => nodes[n].timers = 0)
    /\ [][\A n \in NodeIds :
             /\ MouseLeft(n) =>
                   nodes'[n].timers = 1 /\ nodes'[n].timeoutRef = "pending"
             /\ (event'.kind = "timeout" /\ event'.id = n) =>
                   ~nodes'[n].showTooltip /\ nodes'[n].timers = 0
             /\ (MouseEntered(n) /\ nodes[n].showTooltip /\ nodes[n].timers > 0) =>
                   nodes'[n].showTooltip /\ nodes'[n].timers = 0
             /\ (event'.kind = "unmount" /\ event'.id = n) =>
                   nodes'[n].timers = 0]_vars

\* the timer set by a mouse-leave has fired and closed the panel
C25_Witness ==
    /\ event.kind = "timeout"
    /\ nodes[event.id].mounted
    /\ nodes[event.id].timeoutRef = "fired"
    /\ ~nodes[event.id].showTooltip
    /\ ~nodes[event.id].isTouchActive
    /\ ~isDragging

====
